---- MODULE Spec2Model ----
(***************************************************************************)
(* State-machine model of the leptohadron package navigator:               *)
(* src/src/main.rs (App, Column, SortCritera, Filter, main) and            *)
(* src/src/installed_packages.rs (PackageDesc, PackageDesc::parse).        *)
(*                                                                         *)
(* Strings are sequences of byte values, so that String ordering and       *)
(* str::contains are computed, not assumed.  A reference &PackageDesc into *)
(* the BTreeMap is modelled by the map key of the record it points to      *)
(* (std::ptr::eq on two such references is equality of keys, because the   *)
(* map holds exactly one record per key).  Option<T> is a sequence of      *)
(* length 0 (None) or 1 (Some).  Vec indices are 0-based as in the source; *)
(* element i of a Vec v is v[i + 1].                                       *)
(***************************************************************************)
EXTENDS Integers, Sequences, FiniteSets, TLC

VARIABLES
    input,          \* what from_directory yields: one parsed-or-not desc file per entry
    phase,          \* position of main: "start", "running", "failed", "quit"
    packages,       \* main's BTreeMap<String, PackageDesc>
    dependants,     \* App.dependants
    columns,        \* App.columns
    active_column,  \* App.active_column
    filter,         \* App.filter
    searching,      \* App.searching
    search,         \* App.search
    last            \* the event handled last and the value of its list_selection_change

vars == <<input, phase, packages, dependants, columns, active_column, filter,
          searching, search, last>>

\* ---------------------------------------------------------------- bounds
\* longest search term the model types
MaxSearchLen == 2

\* ---------------------------------------------------------------- Option
None == <<>>
Some(x) == <<x>>
IsSome(o) == Len(o) = 1
UnwrapOr(o, d) == IF Len(o) = 1 THEN o[1] ELSE d

\* ---------------------------------------------------------------- key codes
Slash == 47
LowerN == 110
UpperN == 78
LowerQ == 113
One == 49
Zero == 48
LowerS == 115
LowerE == 101
QuestionMark == 63

\* ---------------------------------------------------------------- strings
\* String / str Ord: bytewise lexicographic
RECURSIVE StrLess(_, _)
StrLess(a, b) ==
    IF b = <<>> THEN FALSE
    ELSE IF a = <<>> THEN TRUE
    ELSE IF a[1] # b[1] THEN a[1] < b[1]
    ELSE StrLess(Tail(a), Tail(b))

StrLessEq(a, b) == a = b \/ StrLess(a, b)

\* str::contains(pat): pat occurs as a contiguous substring
Contains(name, pat) ==
    \E k \in 0..(Len(name) - Len(pat)) : SubSeq(name, k + 1, k + Len(pat)) = pat

\* ---------------------------------------------------------------- BTreeMap
RECURSIVE SortedKeys(_)
SortedKeys(S) ==
    IF S = {} THEN <<>>
    ELSE LET m == CHOOSE x \in S : \A y \in S : StrLessEq(x, y)
         IN  <<m>> \o SortedKeys(S \ {m})

\* BTreeMap::values(): references to the values in ascending key order
Values(pk) == SortedKeys(DOMAIN pk)

\* FromIterator for BTreeMap: a later pair replaces an earlier one with an equal key
RECURSIVE CollectMap(_)
CollectMap(descs) ==
    IF descs = <<>> THEN <<>>
    ELSE LET n    == Len(descs)
             rest == CollectMap(SubSeq(descs, 1, n - 1))
             d    == descs[n]
         IN  [k \in (DOMAIN rest) \cup {d.name} |-> IF k = d.name THEN d ELSE rest[k]]

\* ---------------------------------------------------------------- installed_packages.rs
\* PackageDesc::parse: the four ensure! at the end
ParseOk(raw) ==
    /\ raw.name # <<>>
    /\ raw.version # <<>>
    /\ raw.description # <<>>
    /\ raw.url # <<>>

\* ---------------------------------------------------------------- SortCritera / Filter
\* SortCritera::sort without the std::cmp::Reverse of line 64
SortKeyLessEq_NoReverse(crit, pk, p, q) ==
    IF crit = "NameAsc"
    THEN StrLessEq(pk[p].name, pk[q].name)
    ELSE UnwrapOr(pk[p].size, 0) <= UnwrapOr(pk[q].size, 0)

\* the ordering of two sort keys, key(p) <= key(q)
SortKeyLessEq(crit, pk, p, q) ==
    IF crit = "NameAsc"
    THEN StrLessEq(pk[p].name, pk[q].name)
    ELSE UnwrapOr(pk[p].size, 0) >= UnwrapOr(pk[q].size, 0)

\* one step of a stable sort: x goes behind every element whose key is <= its own
RECURSIVE InsertStable(_, _, _, _)
InsertStable(crit, pk, s, x) ==
    IF s = <<>> THEN <<x>>
    ELSE IF SortKeyLessEq(crit, pk, s[1], x)
         THEN <<s[1]>> \o InsertStable(crit, pk, Tail(s), x)
         ELSE <<x>> \o s

\* SortCritera::sort: slice::sort_by_key, a stable sort
RECURSIVE Sort(_, _, _)
Sort(crit, pk, s) ==
    IF s = <<>> THEN <<>>
    ELSE InsertStable(crit, pk, Sort(crit, pk, SubSeq(s, 1, Len(s) - 1)), s[Len(s)])

\* Filter::filter
FilterPasses(f, desc) ==
    IF f = "All" THEN TRUE ELSE desc.reason = "Explicit"

ToggleSortCriteria(crit) == IF crit = "NameAsc" THEN "SizeDesc" ELSE "NameAsc"

\* the match of lines 402-405 with both arms giving Filter::Explicit
ToggleFilterMode_Stuck(f) == "Explicit"

ToggleFilterMode(f) == IF f = "All" THEN "Explicit" ELSE "All"

\* ---------------------------------------------------------------- Column
\* Iterator::position / Iterator::find: 0-based index of the first element whose test,
\* given as the sequence of the test's results, is true
Position(hits) ==
    IF \E i \in 1..Len(hits) : hits[i]
    THEN Some((CHOOSE i \in 1..Len(hits) : hits[i] /\ \A j \in 1..(i - 1) : ~hits[j]) - 1)
    ELSE None

DefaultColumn ==
    [is_active |-> FALSE, sort_criteria |-> "NameAsc", packages |-> <<>>, list_state |-> None]

\* Column::selected; the unwrap of get(i) panics on an index out of range
SelectedPanics(c) == IsSome(c.list_state) /\ c.list_state[1] >= Len(c.packages)

Selected(c) ==
    IF IsSome(c.list_state) /\ c.list_state[1] < Len(c.packages)
    THEN Some(c.packages[c.list_state[1] + 1])
    ELSE None

Clamp(x, lo, hi) == IF x < lo THEN lo ELSE IF x > hi THEN hi ELSE x

\* Column::change with max(0) in place of clamp(0, len - 1) in line 168
ChangeIndex_NoUpperClamp(c, distance) ==
    IF IsSome(c.list_state)
    THEN Some(IF c.list_state[1] + distance < 0 THEN 0 ELSE c.list_state[1] + distance)
    ELSE None

\* Column::change: the new list_state
ChangeIndex(c, distance) ==
    IF IsSome(c.list_state)
    THEN Some(Clamp(c.list_state[1] + distance, 0, Len(c.packages) - 1))
    ELSE None

\* Column::after_packages_change without the is_empty test of line 180
AfterPackagesChange_NoEmptyTest(c, previous_selection) ==
    LET same == [i \in 1..Len(c.packages) |-> c.packages[i] = previous_selection[1]]
        new_index == IF IsSome(previous_selection) THEN Position(same) ELSE None
    IN  [c EXCEPT !.list_state = IF IsSome(new_index) THEN new_index ELSE Some(0)]

\* Column::after_packages_change
AfterPackagesChange(c, previous_selection) ==
    LET same == [i \in 1..Len(c.packages) |-> c.packages[i] = previous_selection[1]]
        new_index == IF IsSome(previous_selection) THEN Position(same) ELSE None
    IN  [c EXCEPT !.list_state =
            IF IsSome(new_index) THEN new_index
            ELSE IF c.packages # <<>> THEN Some(0) ELSE None]


\* ---------------------------------------------------------------- App
Left == 0
Center == 1
Right == 2

\* App::new without the chain of the optional dependencies in lines 212-217
BuildDependants_RequiredOnly(pk) ==
    LET DepNames(n) == {pk[n].dependencies[i] : i \in 1..Len(pk[n].dependencies)}
        keys == {d \in DOMAIN pk : \E n \in DOMAIN pk : d \in DepNames(n)}
    IN  [d \in keys |-> {n \in DOMAIN pk : d \in DepNames(n)}]

\* App::new, lines 210-223: the dependants of every installed dependency
BuildDependants(pk) ==
    LET DepNames(n) ==
            {pk[n].dependencies[i] : i \in 1..Len(pk[n].dependencies)}
            \cup {pk[n].optional_dependencies[i].name : i \in 1..Len(pk[n].optional_dependencies)}
        keys == {d \in DOMAIN pk : \E n \in DOMAIN pk : d \in DepNames(n)}
    IN  [d \in keys |-> {n \in DOMAIN pk : d \in DepNames(n)}]

\* App::apply_center_filter filtering Center's current items in place of
\* self.packages.values() in lines 430-434
ApplyCenterFilter_FromCurrent(cols, pk, f) ==
    LET c        == cols[Center]
        selected == Selected(c)
        Passes(p) == FilterPasses(f, pk[p])
        c1       == [c EXCEPT !.packages = SelectSeq(c.packages, Passes)]
    IN  [cols EXCEPT ![Center] = AfterPackagesChange(c1, selected)]

\* App::apply_center_filter with after_packages_change(None) and without lines 436-444
ApplyCenterFilter_NoReanchor(cols, pk, f) ==
    LET Passes(p) == FilterPasses(f, pk[p])
        c1 == [cols[Center] EXCEPT !.packages = SelectSeq(Values(pk), Passes)]
    IN  [cols EXCEPT ![Center] = AfterPackagesChange(c1, None)]

\* App::apply_center_filter: the columns it leaves (the caller's self.filter is f)
ApplyCenterFilter(cols, pk, f) ==
    LET c        == cols[Center]
        selected == Selected(c)
        Passes(p) == FilterPasses(f, pk[p])
        c1       == [c EXCEPT !.packages = SelectSeq(Values(pk), Passes)]
        c2       == AfterPackagesChange(c1, selected)
        same_name == [i \in 1..Len(c2.packages) |->
                         pk[c2.packages[i]].name = pk[selected[1]].name]
        pos      == IF IsSome(selected) THEN Position(same_name) ELSE None
        c3       == IF IsSome(pos) THEN [c2 EXCEPT !.list_state = pos] ELSE c2
    IN  [cols EXCEPT ![Center] = c3]

\* App::update_sides with the dependants passed through the Explicit filter
DependantsOf_ExplicitOnly(pk, dep, name) ==
    LET Shown(s) == s \in DOMAIN pk /\ FilterPasses("Explicit", pk[s])
    IN  IF name \in DOMAIN dep THEN SelectSeq(SortedKeys(dep[name]), Shown) ELSE <<>>

\* App::update_sides, the two lists before sorting
DependantsOf(pk, dep, name) ==
    LET Installed(s) == s \in DOMAIN pk
    IN  IF name \in DOMAIN dep THEN SelectSeq(SortedKeys(dep[name]), Installed) ELSE <<>>

DependenciesOf(pk, name) ==
    LET Installed(s) == s \in DOMAIN pk
        desc == pk[name]
        opt  == [i \in 1..Len(desc.optional_dependencies) |-> desc.optional_dependencies[i].name]
    IN  IF name \in DOMAIN pk THEN SelectSeq(desc.dependencies \o opt, Installed) ELSE <<>>

\* App::update_sides sorting both lists by Center's sort_criteria in lines 497-502
UpdateSides_CenterSort(cols, pk, dep, package) ==
    LET Fill(c, list) ==
            AfterPackagesChange(
                [c EXCEPT !.packages = Sort(cols[Center].sort_criteria, pk, list)], None)
    IN  IF IsSome(package)
        THEN [cols EXCEPT ![Left]  = Fill(@, DependantsOf(pk, dep, pk[package[1]].name)),
                          ![Right] = Fill(@, DependenciesOf(pk, pk[package[1]].name))]
        ELSE [cols EXCEPT ![Left]  = AfterPackagesChange([@ EXCEPT !.packages = <<>>], None),
                          ![Right] = AfterPackagesChange([@ EXCEPT !.packages = <<>>], None)]

\* App::update_sides
UpdateSides(cols, pk, dep, package) ==
    LET Fill(c, list) ==
            AfterPackagesChange([c EXCEPT !.packages = Sort(c.sort_criteria, pk, list)], None)
    IN  IF IsSome(package)
        THEN [cols EXCEPT ![Left]  = Fill(@, DependantsOf(pk, dep, pk[package[1]].name)),
                          ![Right] = Fill(@, DependenciesOf(pk, pk[package[1]].name))]
        ELSE [cols EXCEPT ![Left]  = AfterPackagesChange([@ EXCEPT !.packages = <<>>], None),
                          ![Right] = AfterPackagesChange([@ EXCEPT !.packages = <<>>], None)]

\* App::new without the apply_center_filter(Filter::Explicit) of line 251
NewApp_NoFilter(pk) ==
    LET dep    == BuildDependants(pk)
        center == AfterPackagesChange(
                      [is_active |-> TRUE, sort_criteria |-> "NameAsc",
                       packages |-> Sort("NameAsc", pk, Values(pk)), list_state |-> None],
                      None)
        cols1  == [i \in 0..2 |-> IF i = Center THEN center ELSE DefaultColumn]
    IN  [dependants |-> dep,
         columns |-> UpdateSides(cols1, pk, dep, Selected(cols1[Center])),
         active_column |-> 1, filter |-> "Explicit",
         searching |-> FALSE, search |-> <<>>]

\* App::new
NewApp(pk) ==
    LET dep    == BuildDependants(pk)
        center == AfterPackagesChange(
                      [is_active |-> TRUE, sort_criteria |-> "NameAsc",
                       packages |-> Sort("NameAsc", pk, Values(pk)), list_state |-> None],
                      None)
        cols0  == [i \in 0..2 |-> IF i = Center THEN center ELSE DefaultColumn]
        cols1  == ApplyCenterFilter(cols0, pk, "Explicit")
    IN  [dependants |-> dep,
         columns |-> UpdateSides(cols1, pk, dep, Selected(cols1[Center])),
         active_column |-> 1, filter |-> "Explicit",
         searching |-> FALSE, search |-> <<>>]

\* App::change_active_column that also moves the entered column's selection to the top
ChangeActiveColumn_ResetsSelection(cols, active, new) ==
    [[cols EXCEPT ![active].is_active = FALSE]
        EXCEPT ![new].is_active = TRUE,
               ![new].list_state = IF cols[new].packages # <<>> THEN Some(0) ELSE None]

\* App::change_active_column
ChangeActiveColumn(cols, active, new) ==
    [[cols EXCEPT ![active].is_active = FALSE] EXCEPT ![new].is_active = TRUE]

\* App::change_center_package without the filter switch of lines 452-454
ChangeCenterPackage_KeepFilter(cols, pk, dep, active, f) ==
    LET package == Selected(cols[active])
        cols2   == [cols EXCEPT ![Center] = AfterPackagesChange(@, package)]
    IN  IF IsSome(package)
        THEN [filter |-> f, columns |-> UpdateSides(cols2, pk, dep, package)]
        ELSE [filter |-> f, columns |-> cols]

\* App::change_center_package: the filter and columns it leaves
ChangeCenterPackage(cols, pk, dep, active, f) ==
    LET package == Selected(cols[active])
        force   == IsSome(package) /\ pk[package[1]].reason = "Dependency" /\ f = "Explicit"
        cols1   == IF force THEN ApplyCenterFilter(cols, pk, "All") ELSE cols
        cols2   == [cols1 EXCEPT ![Center] = AfterPackagesChange(@, package)]
    IN  IF IsSome(package)
        THEN [filter |-> IF force THEN "All" ELSE f, columns |-> UpdateSides(cols2, pk, dep, package)]
        ELSE [filter |-> f, columns |-> cols]

\* App::search with skip(index) in place of skip(index + 1) in line 516
SearchOrder_FromSelection(n, index, direction) ==
    LET after  == [k \in 1..(IF n > index THEN n - index ELSE 0) |-> index + k - 1]
        before == [k \in 1..(IF index < n THEN index ELSE n) |-> k - 1]
        down   == after \o before
    IN  IF direction = "Down" THEN down ELSE [k \in 1..Len(down) |-> down[Len(down) + 1 - k]]

\* App::search, the order in which the items are examined: after.chain(before), reversed for Up
SearchOrder(n, index, direction) ==
    LET after  == [k \in 1..(IF n > index + 1 THEN n - index - 1 ELSE 0) |-> index + k]
        before == [k \in 1..(IF index < n THEN index ELSE n) |-> k - 1]
        down   == after \o before
    IN  IF direction = "Down" THEN down ELSE [k \in 1..Len(down) |-> down[Len(down) + 1 - k]]

\* App::search: the columns it leaves and its return value
Search(cols, pk, term, direction) ==
    LET c     == cols[Center]
        order == SearchOrder(Len(c.packages), c.list_state[1], direction)
        hits  == [k \in 1..Len(order) |-> Contains(pk[c.packages[order[k] + 1]].name, term)]
        found == Position(hits)
    IN  IF term = <<>> \/ ~IsSome(c.list_state) \/ ~IsSome(found)
        THEN [columns |-> cols, changed |-> FALSE]
        ELSE [columns |-> [cols EXCEPT ![Center].list_state = Some(order[found[1] + 1])],
              changed |-> TRUE]


\* ---------------------------------------------------------------- loaded databases
Explicit == "Explicit"
Dependency == "Dependency"

\* one desc file as PackageDesc::parse reads it
Desc(name, reason, size, deps, opts) ==
    [name |-> name, version |-> <<One>>, description |-> <<LowerS>>, url |-> <<Slash>>,
     reason |-> reason, size |-> size, dependencies |-> deps,
     optional_dependencies |-> [i \in 1..Len(opts) |-> [name |-> opts[i], description |-> None]]]

\* A, B (depends on A), C (depends on A and B, installed as a dependency), named e, n, ne
ScenarioDb ==
    << Desc(<<LowerE>>, Explicit, Some(1), <<>>, <<>>),
       Desc(<<LowerN>>, Explicit, Some(3), <<<<LowerE>>>>, <<>>),
       Desc(<<LowerN, LowerE>>, Dependency, Some(2), << <<LowerE>>, <<LowerN>> >>, <<>>) >>

\* longer names, a missing size, equal sizes, optional dependencies, a dependency that is
\* not installed, and a package named both as a required and as an optional dependency
MixedDb ==
    << Desc(<<LowerN, LowerE>>, Explicit, Some(2), << <<LowerN>>, <<Zero>> >>, << <<LowerE, LowerN>> >>),
       Desc(<<LowerE, LowerN>>, Dependency, None, << <<Zero, One>> >>, <<>>),
       Desc(<<LowerN>>, Explicit, Some(2), << <<LowerE, LowerN>> >>, << <<LowerE, LowerN>> >>) >>

\* nothing installed explicitly
DependencyOnlyDb ==
    << Desc(<<LowerN>>, Dependency, Some(1), <<>>, <<>>) >>

EmptyDb == <<>>

\* two desc files with the same %NAME%
DuplicateDb ==
    << Desc(<<LowerE>>, Explicit, Some(1), <<>>, <<>>),
       Desc(<<LowerE>>, Dependency, Some(5), <<>>, <<>>) >>

\* a desc file without %VERSION%
BrokenDb ==
    << Desc(<<LowerE>>, Explicit, Some(1), <<>>, <<>>),
       [Desc(<<LowerN>>, Explicit, Some(3), <<>>, <<>>) EXCEPT !.version = <<>>] >>

Databases == {ScenarioDb, MixedDb, DependencyOnlyDb, EmptyDb, DuplicateDb, BrokenDb}

\* ---------------------------------------------------------------- main
Init ==
    /\ input \in Databases
    /\ phase = "start"
    /\ packages = <<>>
    /\ dependants = <<>>
    /\ columns = [i \in 0..2 |-> DefaultColumn]
    /\ active_column = 1
    /\ filter = "All"
    /\ searching = FALSE
    /\ search = <<>>
    /\ last = [key |-> "none", list_selection_change |-> FALSE]

\* main, lines 536-540: collect the parsed records, give up on the first Err, build the App
Main ==
    /\ phase = "start"
    /\ IF \E i \in 1..Len(input) : ~ParseOk(input[i])
       THEN /\ phase' = "failed"
            /\ last' = [key |-> "main", list_selection_change |-> FALSE]
            /\ UNCHANGED <<input, packages, dependants, columns, active_column, filter,
                           searching, search>>
       ELSE LET pk  == CollectMap(input)
                app == NewApp(pk)
            IN  /\ phase' = "running"
                /\ packages' = pk
                /\ dependants' = app.dependants
                /\ columns' = app.columns
                /\ active_column' = app.active_column
                /\ filter' = app.filter
                /\ searching' = app.searching
                /\ search' = app.search
                /\ last' = [key |-> "main", list_selection_change |-> FALSE]
                /\ UNCHANGED input

\* ---------------------------------------------------------------- App::event
\* an unwrap of None, an index out of range or an arithmetic overflow while the arm `key`
\* is handled: the process ends by panic
Panicked(key) ==
    /\ phase' = "panic"
    /\ last' = [key |-> key, list_selection_change |-> FALSE]
    /\ UNCHANGED <<input, packages, dependants, columns, active_column, filter,
                   searching, search>>

\* the end of App::event with the side panes refreshed after a change in any column
Handled_AnyColumn(key, cols, active, f, sing, term, changed) ==
    IF changed /\ SelectedPanics(cols[Center])
    THEN Panicked(key)
    ELSE /\ columns' = IF changed
                       THEN UpdateSides(cols, packages, dependants, Selected(cols[Center]))
                       ELSE cols
         /\ active_column' = active
         /\ filter' = f
         /\ searching' = sing
         /\ search' = term
         /\ last' = [key |-> key, list_selection_change |-> changed]
         /\ UNCHANGED <<input, phase, packages, dependants>>

\* the end of App::event, lines 413-417, after the match arm `key` left these values;
\* Column::selected in line 414 panics on a selection out of range
Handled(key, cols, active, f, sing, term, changed) ==
    IF changed /\ active = 1 /\ SelectedPanics(cols[Center])
    THEN Panicked(key)
    ELSE /\ columns' = IF changed /\ active = 1
                       THEN UpdateSides(cols, packages, dependants, Selected(cols[Center]))
                       ELSE cols
         /\ active_column' = active
         /\ filter' = f
         /\ searching' = sing
         /\ search' = term
         /\ last' = [key |-> key, list_selection_change |-> changed]
         /\ UNCHANGED <<input, phase, packages, dependants>>

\* the characters the model types while the search term is entered
TypedChars == {LowerE, LowerN}

\* line 411: no arm matches
Ignored ==
    Handled("ignored", columns, active_column, filter, searching, search, FALSE)

\* line 324: KeyCode::Char(char) if self.searching
PushChar(ch) ==
    /\ ch \in TypedChars
    /\ Len(search) < MaxSearchLen
    /\ Handled("push", columns, active_column, filter, searching, Append(search, ch), FALSE)

\* lines 325-327
KeyBackspace ==
    /\ phase = "running"
    /\ IF searching
       THEN Handled("pop", columns, active_column, filter, searching,
                    SubSeq(search, 1, Len(search) - 1), FALSE)
       ELSE Ignored

\* lines 328-331
KeySlash ==
    /\ phase = "running"
    /\ IF searching THEN PushChar(Slash)
       ELSE Handled("begin_search", columns, active_column, filter, TRUE, <<>>, FALSE)

\* lines 332-335
KeyEsc ==
    /\ phase = "running"
    /\ IF searching
       THEN Handled("cancel_search", columns, active_column, filter, FALSE, <<>>, FALSE)
       ELSE Ignored

\* lines 339, 343, 347: self.active_column = 1, then App::search
SearchArm(key, sing, direction) ==
    LET r == Search(columns, packages, search, direction)
    IN  Handled(key, r.columns, 1, filter, sing, search, r.changed)

\* lines 386-388: App::change_center_package; Column::selected is called on the active
\* column (line 448) and, when the filter is switched, on Center (line 429)
PromoteArm ==
    IF \/ SelectedPanics(columns[active_column])
       \/ /\ IsSome(Selected(columns[active_column]))
          /\ packages[Selected(columns[active_column])[1]].reason = "Dependency"
          /\ filter = "Explicit"
          /\ SelectedPanics(columns[Center])
    THEN Panicked("promote")
    ELSE LET r == ChangeCenterPackage(columns, packages, dependants, active_column, filter)
         IN  Handled("promote", r.columns, active_column, r.filter, searching, search, FALSE)

\* lines 336-340 and 386-388
KeyEnter ==
    /\ phase = "running"
    /\ IF searching THEN SearchArm("commit_search", FALSE, "Down")
       ELSE IF active_column # 1 THEN PromoteArm
       ELSE Ignored

\* lines 341-344
KeyLowerN ==
    /\ phase = "running"
    /\ IF searching THEN PushChar(LowerN) ELSE SearchArm("search_down", searching, "Down")

\* lines 345-348
KeyUpperN ==
    /\ phase = "running"
    /\ IF searching THEN PushChar(UpperN) ELSE SearchArm("search_up", searching, "Up")

\* line 350, for the key q (the key c takes the same arm)
KeyLowerQ ==
    /\ phase = "running"
    /\ IF searching THEN PushChar(LowerQ)
       ELSE /\ phase' = "quit"
            /\ last' = [key |-> "quit", list_selection_change |-> FALSE]
            /\ UNCHANGED <<input, packages, dependants, columns, active_column, filter,
                           searching, search>>

\* line 352
KeyLeft ==
    /\ phase = "running"
    /\ LET new == IF active_column = 0 THEN 0 ELSE active_column - 1
       IN  Handled("left", ChangeActiveColumn(columns, active_column, new), new, filter,
                   searching, search, FALSE)

\* line 353
KeyRight ==
    /\ phase = "running"
    /\ LET new == IF active_column + 1 < 2 THEN active_column + 1 ELSE 2
       IN  Handled("right", ChangeActiveColumn(columns, active_column, new), new, filter,
                   searching, search, FALSE)

\* lines 354-365: Column::change on the active column
ChangeArm(key, distance) ==
    LET c   == columns[active_column]
        new == ChangeIndex(c, distance)
    IN  IF IsSome(c.list_state) /\ c.packages = <<>>
        THEN Panicked(key)
        ELSE Handled(key, [columns EXCEPT ![active_column].list_state = new], active_column,
                     filter, searching, search, c.list_state # new)

KeyUp == phase = "running" /\ ChangeArm("up", -1)

KeyPageUp == phase = "running" /\ ChangeArm("page_up", -10)

KeyDown == phase = "running" /\ ChangeArm("down", 1)

KeyPageDown == phase = "running" /\ ChangeArm("page_down", 10)

\* lines 367-384: jump to index `new` of a non-empty active column
JumpArm(key, new) ==
    LET c == columns[active_column]
    IN  IF c.packages = <<>> THEN Handled(key, columns, active_column, filter, searching,
                                          search, FALSE)
        ELSE IF ~IsSome(c.list_state) THEN Panicked(key)
        ELSE Handled(key, [columns EXCEPT ![active_column].list_state = Some(new)],
                     active_column, filter, searching, search,
                     active_column = 1 /\ c.list_state[1] # new)

\* lines 367-375
KeyOne ==
    /\ phase = "running"
    /\ IF searching THEN PushChar(One) ELSE JumpArm("jump_start", 0)

\* lines 376-384
KeyZero ==
    /\ phase = "running"
    /\ IF searching THEN PushChar(Zero)
       ELSE JumpArm("jump_end", Len(columns[active_column].packages) - 1)

\* lines 390-399
KeyLowerS ==
    /\ phase = "running"
    /\ IF searching THEN PushChar(LowerS)
       ELSE LET c        == columns[active_column]
                selected == Selected(c)
                crit     == ToggleSortCriteria(c.sort_criteria)
                c1       == [c EXCEPT !.sort_criteria = crit,
                                      !.packages = Sort(crit, packages, c.packages)]
            IN  IF SelectedPanics(c) THEN Panicked("toggle_sort")
                ELSE Handled("toggle_sort",
                             [columns EXCEPT ![active_column] = AfterPackagesChange(c1, selected)],
                             active_column, filter, searching, search, FALSE)

\* lines 401-407
KeyLowerE ==
    /\ phase = "running"
    /\ IF searching THEN PushChar(LowerE)
       ELSE LET f == ToggleFilterMode(filter)
            IN  IF SelectedPanics(columns[Center]) THEN Panicked("toggle_filter")
                ELSE Handled("toggle_filter", ApplyCenterFilter(columns, packages, f),
                             active_column, f, searching, search, FALSE)

\* line 409: show_help only selects what App::draw renders and is not part of the state
KeyQuestionMark ==
    /\ phase = "running"
    /\ IF searching THEN PushChar(QuestionMark)
       ELSE Handled("toggle_help", columns, active_column, filter, searching, search, FALSE)

Next ==
    \/ Main
    \/ KeyBackspace
    \/ KeySlash
    \/ KeyEsc
    \/ KeyEnter
    \/ KeyLowerN
    \/ KeyUpperN
    \/ KeyLowerQ
    \/ KeyLeft
    \/ KeyRight
    \/ KeyUp
    \/ KeyPageUp
    \/ KeyDown
    \/ KeyPageDown
    \/ KeyOne
    \/ KeyZero
    \/ KeyLowerS
    \/ KeyLowerE
    \/ KeyQuestionMark

Spec == Init /\ [][Next]_vars


\* ================================================================ properties
\* an App exists
Constructed == phase \in {"running", "quit", "panic"}

\* the records a column shows, as a set
ItemSet(c) == {c.packages[i] : i \in 1..Len(c.packages)}

\* how often a record occurs in a list
Count(s, x) == Cardinality({i \in 1..Len(s) : s[i] = x})

\* names a record lists as required or optional dependencies
ListedDependencies(p) ==
    {packages[p].dependencies[i] : i \in 1..Len(packages[p].dependencies)}
    \cup {packages[p].optional_dependencies[i].name :
             i \in 1..Len(packages[p].optional_dependencies)}

InstalledDependencies(p) == ListedDependencies(p) \cap DOMAIN packages

InstalledDependants(p) == {q \in DOMAIN packages : p \in ListedDependencies(q)}

SizeOf(p) == IF packages[p].size = None THEN 0 ELSE packages[p].size[1]

NonIncreasingSize(s) == \A i \in 1..(Len(s) - 1) : SizeOf(s[i]) >= SizeOf(s[i + 1])

AscendingName(s) ==
    \A i \in 1..(Len(s) - 1) : StrLessEq(packages[s[i]].name, packages[s[i + 1]].name)

\* C1: in every state after construction each pane's selection is None exactly when the
\* pane has no items, and otherwise is an index below the number of items
C1_SelectionBound ==
    Constructed =>
        \A i \in 0..2 :
            /\ (columns[i].list_state = None) <=> (columns[i].packages = <<>>)
            /\ columns[i].list_state # None =>
                   /\ columns[i].list_state[1] >= 0
                   /\ columns[i].list_state[1] < Len(columns[i].packages)

\* C1 witness: after a search moved Center to its last item, next to an empty side pane
C1_Witness ==
    /\ phase = "running"
    /\ last.key = "search_down"
    /\ last.list_selection_change
    /\ Len(columns[Center].packages) = 3
    /\ columns[Center].list_state = Some(2)
    /\ columns[Left].packages = <<>>
    /\ columns[Left].list_state = None
    /\ columns[Right].list_state = Some(0)

\* C2: exactly one pane has is_active = TRUE
C2_SingleActivePane ==
    Constructed => Cardinality({i \in 0..2 : columns[i].is_active}) = 1

\* C3: the side panes show the installed dependants and dependencies of Center's
\* selected record, and are empty without selection when Center has no selection
C3_SidesFollowCenter ==
    Constructed =>
        LET sel == Selected(columns[Center])
        IN  IF sel = None
            THEN \A i \in {Left, Right} :
                     columns[i].packages = <<>> /\ columns[i].list_state = None
            ELSE /\ ItemSet(columns[Left]) = InstalledDependants(sel[1])
                 /\ ItemSet(columns[Right]) = InstalledDependencies(sel[1])

\* C4: right after ToggleFilter Center holds exactly the records passing the filter, in
\* the order of Center's sort_mode
C4_FilterKeepsSortOrder ==
    (phase = "running" /\ last.key = "toggle_filter") =>
        LET c == columns[Center]
        IN  /\ ItemSet(c) = {p \in DOMAIN packages :
                                filter = "All" \/ packages[p].reason = "Explicit"}
            /\ c.sort_criteria = "SizeDesc" => NonIncreasingSize(c.packages)
            /\ c.sort_criteria = "NameAsc" => AscendingName(c.packages)

\* C5: a ToggleSort step leaves the active pane ordered by its new sort_mode (sizes
\* non-increasing with a missing size as 0, or names ascending) and holding every
\* record as often as before
C5_SortCorrectness ==
    [][last'.key = "toggle_sort" =>
          LET before == columns[active_column]
              after  == columns'[active_column]
          IN  /\ after.sort_criteria # before.sort_criteria
              /\ after.sort_criteria = "SizeDesc" => NonIncreasingSize(after.packages)
              /\ after.sort_criteria = "NameAsc" => AscendingName(after.packages)
              /\ Len(after.packages) = Len(before.packages)
              /\ \A p \in DOMAIN packages :
                     Count(after.packages, p) = Count(before.packages, p)]_vars

\* C5 witness: a ToggleSort to SizeDescending that moved a record with a later name
\* in front of one with an earlier name, with two equal sizes in the pane
C5_Witness ==
    /\ phase = "running"
    /\ last.key = "toggle_sort"
    /\ LET c == columns[active_column]
       IN  /\ c.sort_criteria = "SizeDesc"
           /\ Len(c.packages) = 3
           /\ ~AscendingName(c.packages)
           /\ \E i \in 1..2 : SizeOf(c.packages[i]) = SizeOf(c.packages[i + 1])


\* the first index after s in the circular order s+step, s+2*step, ... (modulo n) whose
\* record name contains the term, s itself excluded; None when there is none
FirstCircularMatch(items, s, term, step) ==
    LET n == Len(items)
        At(d) == (s + n * d + step * d) % n
        D == {d \in 1..(n - 1) : Contains(packages[items[At(d) + 1]].name, term)}
    IN  IF D = {} THEN None
        ELSE Some(At(CHOOSE d \in D : \A e \in D : d <= e))

\* C6: a search step with a non-empty term and a Center selection s selects the first
\* match in the order s+1, ..., n-1, 0, ..., s-1 (Forward) or s-1, ..., 0, n-1, ..., s+1
\* (Backward) and reports a change; with no match other than possibly s itself the
\* selection stays and the search reports no change
C6_SearchScan ==
    [][(/\ last'.key \in {"commit_search", "search_down", "search_up"}
        /\ search # <<>>
        /\ columns[Center].list_state # None) =>
          LET c      == columns[Center]
              step   == IF last'.key = "search_up" THEN -1 ELSE 1
              target == FirstCircularMatch(c.packages, c.list_state[1], search, step)
          IN  /\ columns'[Center].packages = c.packages
              /\ IF target = None
                 THEN /\ columns'[Center].list_state = c.list_state
                      /\ ~last'.list_selection_change
                 ELSE /\ columns'[Center].list_state = target
                      /\ target # c.list_state
                      /\ last'.list_selection_change]_vars

\* C6 witness: a Forward repeat search for a two-character term that wrapped around
\* the end of a three-item Center and selected its first item
C6_Witness ==
    /\ phase = "running"
    /\ last.key = "search_down"
    /\ last.list_selection_change
    /\ Len(search) = 2
    /\ Len(columns[Center].packages) = 3
    /\ columns[Center].list_state = Some(0)

\* C7: a CommitSearch or RepeatSearch with an empty term or without a Center selection
\* changes no pane, nor the active pane index, nor the filter
C7_SearchNoOp ==
    [][(/\ last'.key \in {"commit_search", "search_down", "search_up"}
        /\ (search = <<>> \/ columns[Center].list_state = None)) =>
          UNCHANGED <<columns, active_column, filter>>]_vars

\* C8: promoting the record T selected in the active side pane selects T in Center,
\* switches the filter to All exactly when T is a Dependency under ExplicitOnly, and
\* refills both side panes from T with their selections reset
C8_Promote ==
    [][(/\ last'.key = "promote"
        /\ Selected(columns[active_column]) # None) =>
          LET T == Selected(columns[active_column])[1]
          IN  /\ Selected(columns'[Center]) = Some(T)
              /\ filter' = IF packages[T].reason = "Dependency" /\ filter = "Explicit"
                           THEN "All" ELSE filter
              /\ ItemSet(columns'[Left]) = InstalledDependants(T)
              /\ ItemSet(columns'[Right]) = InstalledDependencies(T)
              /\ \A i \in {Left, Right} :
                     columns'[i].list_state =
                         IF columns'[i].packages = <<>> THEN None ELSE Some(0)
              /\ (/\ input = ScenarioDb
                  /\ filter = "Explicit"
                  /\ Selected(columns[Center]) = Some(<<LowerE>>)
                  /\ active_column = Left
                  /\ T = <<LowerN, LowerE>>) =>
                     /\ filter' = "All"
                     /\ Selected(columns'[Center]) = Some(<<LowerN, LowerE>>)]_vars

\* C8 witness: in the scenario index, C (named ne) promoted from the Dependants pane and
\* now selected in Center under All, with its dependencies A and B in the right pane
C8_Witness ==
    /\ phase = "running"
    /\ input = ScenarioDb
    /\ last.key = "promote"
    /\ active_column = Left
    /\ filter = "All"
    /\ Selected(columns[Center]) = Some(<<LowerN, LowerE>>)
    /\ columns[Left].packages = <<>>
    /\ ItemSet(columns[Right]) = {<<LowerE>>, <<LowerN>>}

\* C9: while the search term is being entered, no event other than committing the
\* search changes a pane, the active pane index or the filter
C9_SearchEntrySuppressesNavigation ==
    [][(searching /\ last'.key # "commit_search") =>
          UNCHANGED <<columns, active_column, filter>>]_vars

\* two of the loaded records have the same name
HasDuplicateName(descs) ==
    \E i, j \in 1..Len(descs) : i # j /\ descs[i].name = descs[j].name

\* C10: construction from records with a duplicate name fails and yields no App
C10_DuplicateNameRejected ==
    (phase # "start" /\ HasDuplicateName(input)) => phase = "failed"


\* C11: no event ends in a panic: no unwrap of an absent selection, no index out of
\* range and no underflow of len() - 1 is reached from any state
C11_Totality == phase # "panic"

\* C11 witness: a jump to the end handled in an empty side pane
C11_Witness ==
    /\ phase = "running"
    /\ last.key = "jump_end"
    /\ active_column = Right
    /\ columns[Right].packages = <<>>
    /\ columns[Right].list_state = None
    /\ columns[Center].packages # <<>>


\* a step in which App::update_sides runs: construction, an event that reports a changed
\* selection while Center is the active column, or a promote of a selected record
SidesRecomputed ==
    \/ last'.key = "main" /\ phase' = "running"
    \/ last'.list_selection_change /\ active_column' = 1
    \/ last'.key = "promote" /\ Selected(columns[active_column]) # None

\* with D selected in Center, every installed P that lists D is in the Dependants pane and
\* every installed dependency of D is in the Dependencies pane; no pane shows a name that
\* is not installed
SidesContainRelations ==
    /\ \A i \in {Left, Right} : ItemSet(columns[i]) \subseteq DOMAIN packages
    /\ Selected(columns[Center]) # None =>
           LET D == Selected(columns[Center])[1]
           IN  /\ \A P \in DOMAIN packages :
                      D \in ListedDependencies(P) => P \in ItemSet(columns[Left])
               /\ \A E \in DOMAIN packages :
                      E \in ListedDependencies(D) => E \in ItemSet(columns[Right])

\* C12: right after every recomputation of the side panes, the Dependants pane contains
\* each installed package listing the centered one as a required or optional dependency,
\* the Dependencies pane contains each installed dependency of the centered one, and
\* names that are not installed appear in neither
C12_DependantDependencyConsistency ==
    [][SidesRecomputed => SidesContainRelations']_vars

\* C12 witness: en was selected in Center by a move; n lists it as a required and ne only
\* as an optional dependency, and its own dependency is not installed
C12_Witness ==
    /\ phase = "running"
    /\ input = MixedDb
    /\ last.key \in {"up", "down"}
    /\ last.list_selection_change
    /\ active_column = 1
    /\ Selected(columns[Center]) = Some(<<LowerE, LowerN>>)
    /\ ItemSet(columns[Left]) = {<<LowerN>>, <<LowerN, LowerE>>}
    /\ columns[Right].packages = <<>>

\* the side panes are the full installed dependants and dependencies of the record
\* selected in Center, whatever their install reason and whatever the filter
SidesUnfiltered ==
    IF Selected(columns[Center]) = None
    THEN \A i \in {Left, Right} : columns[i].packages = <<>>
    ELSE LET sel == Selected(columns[Center])[1]
         IN  /\ ItemSet(columns[Left]) = InstalledDependants(sel)
             /\ ItemSet(columns[Right]) = InstalledDependencies(sel)

\* C13: what a recomputation puts into the side panes does not depend on filter_mode:
\* under either filter it is the full set of installed dependants and dependencies, and
\* in the scenario index the construction under ExplicitOnly shows B and C as dependants
\* of A while Center shows only A and B
C13_SidesIgnoreFilter ==
    [][SidesRecomputed =>
          /\ SidesUnfiltered'
          /\ (last'.key = "main" /\ input = ScenarioDb) =>
                 /\ filter' = "Explicit"
                 /\ columns'[Center].packages = << <<LowerE>>, <<LowerN>> >>
                 /\ columns'[Center].list_state = Some(0)
                 /\ ItemSet(columns'[Left]) = {<<LowerN>>, <<LowerN, LowerE>>}]_vars

\* C13 witness: under ExplicitOnly a move in Center selected B (n) of the scenario index,
\* whose only dependant C (ne) is installed as a dependency
C13_Witness ==
    /\ phase = "running"
    /\ input = ScenarioDb
    /\ filter = "Explicit"
    /\ last.list_selection_change
    /\ active_column = 1
    /\ Selected(columns[Center]) = Some(<<LowerN>>)
    /\ columns[Left].packages = << <<LowerN, LowerE>> >>
    /\ packages[<<LowerN, LowerE>>].reason = "Dependency"


\* C14: a ToggleFilter followed at once by a second ToggleFilter gives Center the set of
\* records it held before the first: the set held before a ToggleFilter step equals the
\* set that the next ToggleFilter computes from the state the step leaves
C14_FilterRoundTrip ==
    [][last'.key = "toggle_filter" =>
          ItemSet(ApplyCenterFilter(columns', packages', ToggleFilterMode(filter'))[Center])
              = ItemSet(columns[Center])]_vars

\* C14 witness: a ToggleFilter brought the scenario index back from All to ExplicitOnly
\* with Center showing its two explicit records
C14_Witness ==
    /\ phase = "running"
    /\ input = ScenarioDb
    /\ last.key = "toggle_filter"
    /\ filter = "Explicit"
    /\ ItemSet(columns[Center]) = {<<LowerE>>, <<LowerN>>}

\* C15: in every pane, re-anchoring with the same items and the currently selected record
\* as the previous selection leaves the selection index unchanged
C15_ReanchorIdempotent ==
    (Constructed /\ phase # "panic") =>
        \A i \in 0..2 :
            AfterPackagesChange(columns[i], Selected(columns[i])).list_state
                = columns[i].list_state

\* the explicit records of the index in ascending name order
ExplicitByName == SelectSeq(SortedKeys(DOMAIN packages),
                            LAMBDA p : packages[p].reason = "Explicit")

\* C16: right after construction the filter is ExplicitOnly, Center is the active pane
\* and the only one flagged active, Center holds exactly the Explicit records in
\* ascending name order with selection 0 (None without records), every pane sorts by
\* NameAscending, and the side panes are those of Center's selection, name-ascending
\* with selection 0 (None when empty)
C16_InitialState ==
    (phase = "running" /\ last.key = "main") =>
        /\ filter = "Explicit"
        /\ active_column = 1
        /\ \A i \in 0..2 : columns[i].is_active = (i = Center)
        /\ columns[Center].packages = ExplicitByName
        /\ \A i \in 0..2 :
               /\ columns[i].sort_criteria = "NameAsc"
               /\ AscendingName(columns[i].packages)
               /\ columns[i].list_state =
                      IF columns[i].packages = <<>> THEN None ELSE Some(0)
        /\ SidesUnfiltered

\* C16 witness: the state right after construction from the scenario index
C16_Witness ==
    /\ phase = "running"
    /\ last.key = "main"
    /\ input = ScenarioDb
    /\ columns[Center].packages = << <<LowerE>>, <<LowerN>> >>
    /\ Len(columns[Left].packages) = 2

\* C17: a left or right pane change, clamped or not, leaves every pane's items,
\* selection and sort_mode, the filter and the search term unchanged
C17_ChangeActivePaneFrame ==
    [][last'.key \in {"left", "right"} =>
          /\ \A i \in 0..2 :
                 /\ columns'[i].packages = columns[i].packages
                 /\ columns'[i].list_state = columns[i].list_state
                 /\ columns'[i].sort_criteria = columns[i].sort_criteria
          /\ filter' = filter
          /\ search' = search
          /\ searching' = searching]_vars

\* C17 witness: a right pane change ended in the Dependencies pane, whose selection is
\* not at the top
C17_Witness ==
    /\ phase = "running"
    /\ last.key = "right"
    /\ active_column = Right
    /\ columns[Right].is_active
    /\ columns[Right].list_state = Some(1)


\* the distance of a move key
MoveDelta(key) ==
    IF key = "up" THEN -1 ELSE IF key = "page_up" THEN -10 ELSE IF key = "down" THEN 1 ELSE 10

\* both side panes hold the full dependants and dependencies of Center's selection with
\* their selections at the top (None when empty)
SidesReset ==
    /\ SidesUnfiltered
    /\ \A i \in {Left, Right} :
           columns[i].list_state = IF columns[i].packages = <<>> THEN None ELSE Some(0)

\* C18: a move by delta sets the active pane's selection to clamp(i + delta, 0, len - 1),
\* keeps its items and does nothing on an empty pane; when the active pane is Center and
\* its index changed the side panes are recomputed with their selections reset, and
\* otherwise the other panes are left as they were
C18_MoveSelection ==
    [][(last'.key \in {"up", "page_up", "down", "page_down"} /\ phase' = "running") =>
          LET a == active_column
              c == columns[a]
              expected == IF c.list_state = None THEN None
                          ELSE Some(Clamp(c.list_state[1] + MoveDelta(last'.key),
                                          0, Len(c.packages) - 1))
          IN  /\ active_column' = a
              /\ columns'[a].packages = c.packages
              /\ columns'[a].list_state = expected
              /\ columns'[a].sort_criteria = c.sort_criteria
              /\ c.packages = <<>> => columns' = columns
              /\ IF a = Center /\ expected # c.list_state
                 THEN SidesReset'
                 ELSE \A i \in 0..2 : i # a => columns'[i] = columns[i]]_vars

\* C18 witness: a move down in Center of the scenario index selected B (n) and the side
\* panes were refilled from it
C18_Witness ==
    /\ phase = "running"
    /\ input = ScenarioDb
    /\ last.key = "down"
    /\ last.list_selection_change
    /\ active_column = 1
    /\ columns[Center].list_state = Some(1)
    /\ Selected(columns[Center]) = Some(<<LowerN>>)
    /\ columns[Left].packages = << <<LowerN, LowerE>> >>
    /\ columns[Right].packages = << <<LowerE>> >>

\* a side pane is ordered by its own sort_mode
SideSorted(i) ==
    /\ columns[i].sort_criteria = "SizeDesc" => NonIncreasingSize(columns[i].packages)
    /\ columns[i].sort_criteria = "NameAsc" => AscendingName(columns[i].packages)

\* C19: a ToggleSort step flips the sort_mode of the active pane only, keeps the same
\* record selected there and leaves the other two panes entirely unchanged; a
\* recomputation of the side panes keeps each side pane's own sort_mode and orders the
\* pane by it
C19_ToggleSortLocal ==
    [][/\ (last'.key = "toggle_sort" /\ phase' = "running") =>
              LET a == active_column
              IN  /\ active_column' = a
                  /\ columns'[a].sort_criteria # columns[a].sort_criteria
                  /\ Selected(columns'[a]) = Selected(columns[a])
                  /\ ItemSet(columns'[a]) = ItemSet(columns[a])
                  /\ \A i \in 0..2 : i # a => columns'[i] = columns[i]
       /\ SidesRecomputed =>
              \A i \in {Left, Right} :
                  /\ columns'[i].sort_criteria = columns[i].sort_criteria
                  /\ SideSorted(i)']_vars

\* C19 witness: a ToggleSort in Center of the scenario index under All moved the selected
\* record A (e), the smallest, from the top to the bottom while the Dependants pane keeps
\* its two records in name order
C19_Witness ==
    /\ phase = "running"
    /\ input = ScenarioDb
    /\ last.key = "toggle_sort"
    /\ active_column = 1
    /\ columns[Center].sort_criteria = "SizeDesc"
    /\ columns[Center].list_state = Some(2)
    /\ Selected(columns[Center]) = Some(<<LowerE>>)
    /\ columns[Left].sort_criteria = "NameAsc"
    /\ columns[Left].packages = << <<LowerN>>, <<LowerN, LowerE>> >>

\* C20: after a ToggleFilter the record selected in Center before it is still selected if
\* it passes the new filter; otherwise the selection is index 0, or None when Center is
\* empty
C20_ToggleFilterReanchor ==
    [][(last'.key = "toggle_filter" /\ phase' = "running") =>
          LET sel == Selected(columns[Center])
              after == columns'[Center]
          IN  IF sel # None /\ (filter' = "All" \/ packages[sel[1]].reason = "Explicit")
              THEN Selected(after) = sel
              ELSE after.list_state = IF after.packages # <<>> THEN Some(0) ELSE None]_vars

\* C20 witness: a ToggleFilter to All kept the explicit record ne selected, now at
\* index 2 behind the dependency en
C20_Witness ==
    /\ phase = "running"
    /\ input = MixedDb
    /\ last.key = "toggle_filter"
    /\ filter = "All"
    /\ columns[Center].list_state = Some(2)
    /\ Selected(columns[Center]) = Some(<<LowerN, LowerE>>)
    /\ Len(columns[Center].packages) = 3


\* no record is at two positions of the sequence
NoRepeat(s) == \A i, j \in 1..Len(s) : s[i] = s[j] => i = j

\* C21: in every state after construction Center holds exactly the records of the index
\* that pass the current filter, each once; so every record of a side pane that passes
\* the filter, which is what a promote re-anchors on without refilling Center, is in
\* Center
C21_CenterReflectsFilter ==
    (Constructed /\ phase # "panic") =>
        /\ ItemSet(columns[Center]) =
               {p \in DOMAIN packages : filter = "All" \/ packages[p].reason = "Explicit"}
        /\ NoRepeat(columns[Center].packages)
        /\ \A i \in {Left, Right} : \A k \in 1..Len(columns[i].packages) :
               LET T == columns[i].packages[k]
               IN  (filter = "All" \/ packages[T].reason = "Explicit")
                       => T \in ItemSet(columns[Center])

\* C21 witness: a promote of the dependency C (ne) of the scenario index under
\* ExplicitOnly switched the filter to All, and Center holds all three records with ne
\* selected
C21_Witness ==
    /\ phase = "running"
    /\ input = ScenarioDb
    /\ last.key = "promote"
    /\ filter = "All"
    /\ Len(columns[Center].packages) = 3
    /\ Selected(columns[Center]) = Some(<<LowerN, LowerE>>)
    /\ packages[<<LowerN, LowerE>>].reason = "Dependency"

\* C22: in every state after construction the pane at active_column is the pane whose
\* is_active flag is set, and no other pane's flag is set
C22_ActiveIndexAgreesWithFlags ==
    (Constructed /\ phase # "panic") =>
        \A i \in 0..2 : columns[i].is_active <=> (i = active_column)

\* C23: in every state after construction no pane holds the same record at two positions
C23_NoDuplicateEntries ==
    (Constructed /\ phase # "panic") =>
        \A i \in 0..2 : NoRepeat(columns[i].packages)

====
